---- MODULE Spec2Model ----
(***************************************************************************)
(* A model of the background script of github-account-switcher             *)
(* (src/src/background/index.ts): the account sync, the compilation of the *)
(* auto-switch rules into declarativeNetRequest rules, the reconcile of    *)
(* the installed dynamic rules, the debounced cookie watcher and the       *)
(* blocking request interceptor used when declarativeNetRequest is absent. *)
(*                                                                         *)
(* Every async function is a task whose pc names the awaited call it is    *)
(* suspended at; one action performs that call and runs the code up to the *)
(* next await.  Tasks interleave freely at their awaits.                   *)
(***************************************************************************)
EXTENDS Integers, Sequences, FiniteSets, TLC

(***************************************************************************)
(* Bounds of the model.                                                    *)
(***************************************************************************)
MaxEvents == 3        \* cookie-store changes delivered to the watcher
MaxTasks == 2         \* async calls (syncAccounts, removeAccount) in flight
MaxSyncs == 1         \* of them, syncs the debounce timer started
MaxMessages == 2      \* removeAccount messages
MaxRuleEdits == 1     \* edits of the stored rule list
MaxRules == 2         \* stored rules, where the rule list is drawn
TickMs == 100         \* granularity of the clock, in ms

(***************************************************************************)
(* Program constants.                                                      *)
(***************************************************************************)
DEBOUNCE_MS == 300    \* setTimeout(..., 300)
RULE_PRIORITY == 1    \* priority: 1
ID_OFFSET == 1        \* id: index + 1
BADGE_LEN == 2        \* account.slice(0, 2)
HTTP_OK == 200        \* res.status === 200

RESOURCE_TYPES == <<"main_frame", "sub_frame", "csp_report", "websocket", "xmlhttprequest">>

AUTH_COOKIES == {"dotcom_user", "user_session", "_gh_sso", "logged_in"}

(***************************************************************************)
(* The data the model ranges over.                                         *)
(***************************************************************************)
AccountNames == {"alice", "bob"}
\* every cookie of the store, in the order cookie.getAll() lists them
CookieOrder == <<"dotcom_user", "user_session", "_gh_sso", "logged_in", "_octo">>
CookieNames == {CookieOrder[i] : i \in 1..Len(CookieOrder)}
CookieValues(name) ==
    IF name = "dotcom_user" THEN {"alice"} ELSE {"1"}
UrlPatterns == {"/orgA", "/orgB"}
Urls == {"https://github.com/orgA/repo", "https://github.com/orgB",
         "https://github.com/orgA/orgB", "https://github.com/",
         "https://github.com/x?__account__=bob"}

Min(a, b) == IF a < b THEN a ELSE b
Max(a, b) == IF a > b THEN a ELSE b

(***************************************************************************)
(* Strings.                                                                *)
(***************************************************************************)
RECURSIVE InfixFrom(_, _, _)
InfixFrom(p, s, i) ==
    IF i + Len(p) - 1 > Len(s) THEN FALSE
    ELSE IF SubSeq(s, i, i + Len(p) - 1) = p THEN TRUE
    ELSE InfixFrom(p, s, i + 1)

\* p occurs in s
IsInfix(p, s) == InfixFrom(p, s, 1)

\* the alternatives of a regular expression source, split at its top-level "|"
RECURSIVE Alternatives(_, _, _)
Alternatives(src, from, i) ==
    IF i > Len(src) THEN {SubSeq(src, from, Len(src))}
    ELSE IF SubSeq(src, i, i) = "|"
         THEN {SubSeq(src, from, i - 1)} \cup Alternatives(src, i + 1, i + 1)
         ELSE Alternatives(src, from, i + 1)

\* new RegExp(source).test(url), for sources whose alternatives are literal text
RegExpTest(source, url) ==
    \E alt \in Alternatives(source, 1, 1) : IsInfix(alt, url)

\* Array.prototype.join
RECURSIVE Join(_, _)
Join(parts, sep) ==
    IF parts = <<>> THEN ""
    ELSE IF Len(parts) = 1 THEN parts[1]
    ELSE parts[1] \o sep \o Join(Tail(parts), sep)

\* String.prototype.slice(0, n)
SliceTo(s, n) == SubSeq(s, 1, Min(n, Len(s)))

\* String.prototype.toLowerCase, on the header names of the model
ToLowerCase(s) == IF s = "Cookie" \/ s = "COOKIE" THEN "cookie"
                  ELSE IF s = "Accept" THEN "accept" ELSE s

\* Array.prototype.map
MapSeq(F(_), s) == [i \in 1..Len(s) |-> F(s[i])]

SeqToSet(s) == {s[i] : i \in 1..Len(s)}

(***************************************************************************)
(* The services the background script calls (../services/cookie, account,  *)
(* rule, badge) and the platform's declarativeNetRequest engine.           *)
(***************************************************************************)
NoCookie == [found |-> FALSE, value |-> ""]
EmptyJar == [n \in CookieNames |-> NoCookie]

\* cookie.get(name): the cookie of that name, or undefined
CookieGet(store, name) == store[name]

\* cookie.getAll(): every cookie of the store
RECURSIVE CookieGetAllFrom(_, _)
CookieGetAllFrom(store, i) ==
    IF i > Len(CookieOrder) THEN <<>>
    ELSE (IF store[CookieOrder[i]].found
          THEN <<[name |-> CookieOrder[i], value |-> store[CookieOrder[i]].value]>>
          ELSE <<>>) \o CookieGetAllFrom(store, i + 1)

CookieGetAll(store) == CookieGetAllFrom(store, 1)

NoAccount == [known |-> FALSE, cookies |-> <<>>]

\* accountService.upsert(name, cookies): the account's snapshot is replaced
AccountUpsert(store, name, cookies) ==
    [store EXCEPT ![name] = [known |-> TRUE, cookies |-> cookies]]

\* accountService.remove(name)
AccountRemove(store, name) == [store EXCEPT ![name] = NoAccount]

\* accountService.find(name): the account, or undefined
AccountFind(store, name) ==
    IF name \in DOMAIN store THEN store[name] ELSE NoAccount

RuleIds(ruleSet) == {r.id : r \in ruleSet}

\* declarativeNetRequest.updateDynamicRules({removeRuleIds, addRules}): one atomic
\* update, first the removals, then the additions; it is rejected, and changes
\* nothing, when an added rule's id is not unique
UpdateDynamicRules(installed, removeRuleIds, addRules) ==
    LET kept == {r \in installed : r.id \notin removeRuleIds}
        unique == /\ \A i, j \in 1..Len(addRules) :
                        i # j => addRules[i].id # addRules[j].id
                  /\ \A i \in 1..Len(addRules) : addRules[i].id \notin RuleIds(kept)
    IN  IF unique THEN [ok |-> TRUE, rules |-> kept \cup SeqToSet(addRules)]
        ELSE [ok |-> FALSE, rules |-> installed]

(***************************************************************************)
(* buildCookieValue and buildAddRules.                                     *)
(***************************************************************************)
Null == [isNull |-> TRUE, value |-> ""]
Str(v) == [isNull |-> FALSE, value |-> v]

CookiePair(cookie) == cookie.name \o "=" \o cookie.value

AccountMarker(accountName) == "__account__=" \o accountName

BuildCookieValue(store, accountName) ==
    LET account == AccountFind(store, accountName)
        cookies == account.cookies        \* account?.cookies || []
    IN  IF Len(cookies) = 0 THEN Null
        ELSE Str(Join(Append(MapSeq(CookiePair, cookies), AccountMarker(accountName)), "; "))

\* the regular expression both paths test the url against
CombinedPattern(rule) == rule.urlPattern \o "|" \o AccountMarker(rule.account)

RequestRule(index, rule, cookieValue) ==
    [id |-> index + ID_OFFSET,
     priority |-> RULE_PRIORITY,
     action |-> [type |-> "modifyHeaders",
                 requestHeaders |-> <<[header |-> "Cookie", operation |-> "set",
                                       value |-> cookieValue]>>],
     condition |-> [regexFilter |-> CombinedPattern(rule),
                    resourceTypes |-> RESOURCE_TYPES]]

BuildAddRulesStepDenseIds(store, autoSwitchRules, index, requestRules) ==
    LET rule == autoSwitchRules[index + 1]
        cookieValue == BuildCookieValue(store, rule.account)
    IN  IF cookieValue.isNull THEN requestRules
        ELSE Append(requestRules, RequestRule(Len(requestRules), rule, cookieValue.value))

\* one turn of buildAddRules' loop, for the rule at 0-based position index
BuildAddRulesStep(store, autoSwitchRules, index, requestRules) ==
    LET rule == autoSwitchRules[index + 1]
        cookieValue == BuildCookieValue(store, rule.account)
    IN  IF cookieValue.isNull THEN requestRules
        ELSE Append(requestRules, RequestRule(index, rule, cookieValue.value))

RECURSIVE BuildAddRulesFrom(_, _, _, _)
BuildAddRulesFrom(store, autoSwitchRules, index, requestRules) ==
    IF index >= Len(autoSwitchRules) THEN requestRules
    ELSE BuildAddRulesFrom(store, autoSwitchRules, index + 1,
                           BuildAddRulesStep(store, autoSwitchRules, index, requestRules))

\* buildAddRules(), run against stores that do not change meanwhile
BuildAddRules(autoSwitchRules, store) == BuildAddRulesFrom(store, autoSwitchRules, 0, <<>>)

\* what buildAddRules returns for the given stores, as a set of installed rules
Compiled(autoSwitchRules, store) == SeqToSet(BuildAddRules(autoSwitchRules, store))

(***************************************************************************)
(* The listener interceptRequests registers on onBeforeSendHeaders.        *)
(***************************************************************************)
NoHeaders == [present |-> FALSE, list |-> <<>>]

SetCookieHeadersOfAll(headers, cookieValue) ==
    [i \in 1..Len(headers) |-> [headers[i] EXCEPT !.value = cookieValue]]

\* for (const header of details.requestHeaders): the list afterwards
SetCookieHeaders(headers, cookieValue) ==
    [i \in 1..Len(headers) |->
        IF ToLowerCase(headers[i].name) = "cookie"
        THEN [headers[i] EXCEPT !.value = cookieValue]
        ELSE headers[i]]

RECURSIVE InterceptFromLastMatch(_, _, _, _)
InterceptFromLastMatch(details, autoSwitchRules, store, i) ==
    IF i < 1 THEN details.requestHeaders
    ELSE LET rule == autoSwitchRules[i]
             cookieValue == BuildCookieValue(store, rule.account)
         IN  IF RegExpTest(CombinedPattern(rule), details.url)
             THEN IF cookieValue.isNull THEN details.requestHeaders
                  ELSE [present |-> TRUE,
                        list |-> SetCookieHeaders(details.requestHeaders.list,
                                                  cookieValue.value)]
             ELSE InterceptFromLastMatch(details, autoSwitchRules, store, i - 1)

\* the loop over the rules, from the rule at position i
RECURSIVE InterceptFrom(_, _, _, _)
InterceptFrom(details, autoSwitchRules, store, i) ==
    IF i > Len(autoSwitchRules) THEN details.requestHeaders
    ELSE LET rule == autoSwitchRules[i]
             cookieValue == BuildCookieValue(store, rule.account)
         IN  IF RegExpTest(CombinedPattern(rule), details.url)
             THEN IF cookieValue.isNull THEN details.requestHeaders
                  ELSE [present |-> TRUE,
                        list |-> SetCookieHeaders(details.requestHeaders.list,
                                                  cookieValue.value)]
             ELSE InterceptFrom(details, autoSwitchRules, store, i + 1)

InterceptRequestLastMatch(details, autoSwitchRules, store) ==
    IF ~details.requestHeaders.present THEN details.requestHeaders
    ELSE InterceptFromLastMatch(details, autoSwitchRules, store, Len(autoSwitchRules))

\* the listener's result: { requestHeaders }
InterceptRequest(details, autoSwitchRules, store) ==
    IF ~details.requestHeaders.present THEN details.requestHeaders
    ELSE InterceptFrom(details, autoSwitchRules, store, 1)

(***************************************************************************)
(* The state.                                                              *)
(***************************************************************************)
VARIABLES
    jar,            \* the browser's cookie store: name -> cookie
    accounts,       \* the account store: name -> account
    rules,          \* the stored auto-switch rules, in order
    dynamicRules,   \* the dynamic rules installed in declarativeNetRequest
    hasDNR,         \* browser.declarativeNetRequest is defined
    avatars,        \* the accounts an avatar was saved for
    badge,          \* the badge text
    listening,      \* init() has registered its listeners
    intercepting,   \* init() has registered the blocking interceptor
    failed,         \* the callers ("init", "timer", "message") whose call has thrown
    syncTimer,      \* watchCookies' syncTimer (0: undefined)
    timers,         \* the platform's pending timeouts
    tasks,          \* the async calls in flight
    response,       \* what the interceptor returned for the last request
    navigation,     \* the last navigation the navigation watcher saw, and its intents
    compiled,       \* what buildAddRules returned last, run on its own
    \* history, read by the properties only
    nEvents,        \* cookie changes so far
    lastEvent,      \* the last cookie change and what its listener did
    sinceEvent,     \* ms since the last qualifying change, up to DEBOUNCE_MS
    burstEvents,    \* qualifying changes since the timer last started a sync
    nMessages,      \* removeAccount messages so far
    nRuleEdits,     \* edits of the rule list so far
    rejected,       \* an updateDynamicRules call was rejected
    lastReconcile   \* the last updateDynamicRules call that went through

envVars == <<jar, accounts, rules, dynamicRules, hasDNR, avatars, badge>>
watcherVars == <<syncTimer, timers>>
histVars == <<nEvents, lastEvent, sinceEvent, burstEvents, nMessages, nRuleEdits,
              rejected, lastReconcile>>
vars == <<envVars, listening, intercepting, failed, watcherVars, tasks, response, navigation, compiled,
          histVars>>

NoTask ==
    [kind |-> "none", origin |-> "none", pc |-> "idle",
     usernameCookie |-> NoCookie, account |-> "", cookies |-> <<>>,
     removeRuleIds |-> {}, autoSwitchRules |-> <<>>, index |-> 0, requestRules |-> <<>>,
     \* history: the store when the timer expired, whether it changed before the
     \* reads were over, the ms since the last qualifying change and the number
     \* of qualifying changes the sync answers, whether another operation changed
     \* a store during the reconcile
     expiryJar |-> EmptyJar, disturbed |-> FALSE, gap |-> 0, burst |-> 0,
     interfered |-> FALSE,
     \* another operation changed a store since updateDynamicRequestRules was called
     mixed |-> FALSE]

NoEvent == [name |-> "", removed |-> FALSE, heard |-> FALSE, pending |-> {},
            armed |-> 0, badgeTexts |-> <<>>, failedBefore |-> {}, syncing |-> FALSE]
\* what is kept of the updateDynamicRules call before the last
NoEarlier == [valid |-> FALSE, clean |-> FALSE, rules |-> <<>>,
              accounts |-> [n \in AccountNames |-> NoAccount],
              addRules |-> <<>>, after |-> {}]
Earlier(r) == [valid |-> r.valid, clean |-> r.clean, rules |-> r.rules,
               accounts |-> r.accounts, addRules |-> r.addRules, after |-> r.after]
NoReconcile == [valid |-> FALSE, clean |-> FALSE, rules |-> <<>>,
                accounts |-> [n \in AccountNames |-> NoAccount],
                addRules |-> <<>>, before |-> {}, after |-> {}, prev |-> NoEarlier,
                kind |-> "none", account |-> "", alone |-> FALSE]
NotCompiled == [ran |-> FALSE, requestRules |-> <<>>]
NoNavigation == [url |-> "", seen |-> FALSE, pending |-> FALSE, autoSwitchRules |-> <<>>,
                 intents |-> <<>>, blocking |-> FALSE]
NoResponse == [url |-> "", sent |-> NoHeaders, requestHeaders |-> NoHeaders]

TaskIds == 1..MaxTasks
Free == {t \in TaskIds : tasks[t].kind = "none"}
FreeSlot == CHOOSE t \in Free : \A u \in Free : t <= u

ReadPcs == {"cookie.get:user", "cookie.get:session", "cookie.getAll"}
ReconcilePcs == {"rules.getAll", "find", "update"}

\* tasks whose reads of the cookie store are not over see the store change
Disturb(ts) ==
    [t \in DOMAIN ts |->
        IF ts[t].pc \in ReadPcs THEN [ts[t] EXCEPT !.disturbed = TRUE] ELSE ts[t]]

\* tasks in the middle of a reconcile, other than self, see a store change
Interfere(ts, self) ==
    [t \in DOMAIN ts |->
        IF t # self /\ ts[t].pc \in ReconcilePcs
        THEN [ts[t] EXCEPT !.interfered = TRUE, !.mixed = TRUE]
        ELSE IF t # self /\ ts[t].pc = "getDynamicRules"
             THEN [ts[t] EXCEPT !.mixed = TRUE] ELSE ts[t]]

SettleRegistersAnyway(t, ok, ts) ==
    /\ tasks' = [ts EXCEPT ![t] = NoTask]
    /\ failed' = IF ok THEN failed ELSE failed \cup {tasks[t].origin}
    /\ IF tasks[t].origin = "init"
       THEN listening' = TRUE /\ intercepting' = ~hasDNR
       ELSE UNCHANGED <<listening, intercepting>>

\* the call of task t returns (ok) or throws: init() goes on to register its
\* listeners only when its await of syncAccounts() returns
Settle(t, ok, ts) ==
    /\ tasks' = [ts EXCEPT ![t] = NoTask]
    /\ failed' = IF ok THEN failed ELSE failed \cup {tasks[t].origin}
    /\ IF tasks[t].origin = "init" /\ ok
       THEN listening' = TRUE /\ intercepting' = ~hasDNR
       ELSE UNCHANGED <<listening, intercepting>>

Goto(t, pc) == [tasks EXCEPT ![t].pc = pc]

(***************************************************************************)
(* syncAccounts.                                                           *)
(***************************************************************************)
\* const usernameCookie = await cookie.get('dotcom_user')
SyncGetUser(t) ==
    /\ tasks[t].pc = "cookie.get:user"
    /\ tasks' = [tasks EXCEPT ![t].usernameCookie = CookieGet(jar, "dotcom_user"),
                              ![t].pc = "cookie.get:session"]
    /\ UNCHANGED <<envVars, listening, intercepting, failed, watcherVars, response, navigation, compiled,
                   histVars>>

ReturnsEarlyIgnoresSession(usernameCookie, sessionCookie) ==
    ~usernameCookie.found \/ usernameCookie.value = ""

\* if (!usernameCookie || !sessionCookie) return; if (!account) return
ReturnsEarly(usernameCookie, sessionCookie) ==
    ~usernameCookie.found \/ ~sessionCookie.found \/ usernameCookie.value = ""

\* const sessionCookie = await cookie.get('user_session'), and the two early returns
SyncGetSession(t) ==
    /\ tasks[t].pc = "cookie.get:session"
    /\ LET usernameCookie == tasks[t].usernameCookie
           sessionCookie == CookieGet(jar, "user_session")
       IN  IF ReturnsEarly(usernameCookie, sessionCookie)
           THEN Settle(t, TRUE, tasks)
           ELSE /\ tasks' = [tasks EXCEPT ![t].account = usernameCookie.value,
                                          ![t].pc = "cookie.getAll"]
                /\ UNCHANGED <<listening, intercepting, failed>>
    /\ UNCHANGED <<envVars, watcherVars, response, navigation, compiled, histVars>>

\* await cookie.getAll(), the argument of upsert
SyncGetAllCookies(t) ==
    /\ tasks[t].pc = "cookie.getAll"
    /\ tasks' = [tasks EXCEPT ![t].cookies = CookieGetAll(jar), ![t].pc = "upsert"]
    /\ UNCHANGED <<envVars, listening, intercepting, failed, watcherVars, response, navigation, compiled,
                   histVars>>

\* await accountService.upsert(account, ...)
SyncUpsert(t) ==
    /\ tasks[t].pc = "upsert"
    /\ accounts' = AccountUpsert(accounts, tasks[t].account, tasks[t].cookies)
    /\ tasks' = Interfere([tasks EXCEPT ![t].pc = "accounts.getAll",
                                        ![t].expiryJar = EmptyJar,
                                        ![t].disturbed = FALSE], t)
    /\ UNCHANGED <<jar, rules, dynamicRules, hasDNR, avatars, badge, listening,
                   intercepting, failed, watcherVars, response, navigation, compiled, histVars>>

\* await accountService.getAll() (logged only), then updateDynamicRequestRules()
\* up to its first await
SyncListAccounts(t) ==
    /\ tasks[t].pc = "accounts.getAll"
    /\ tasks' = Goto(t, IF hasDNR THEN "getDynamicRules" ELSE "fetch")
    /\ UNCHANGED <<envVars, listening, intercepting, failed, watcherVars, response, navigation, compiled,
                   histVars>>

\* const res = await fetch(...): a response, whose status decides saveAvatar, or
\* a network error
SyncFetchAvatar(t) ==
    /\ tasks[t].pc = "fetch"
    /\ \/ \E status \in {HTTP_OK, 404} :
            /\ avatars' = IF status = HTTP_OK THEN avatars \cup {tasks[t].account}
                          ELSE avatars
            /\ tasks' = Goto(t, "setBadgeText")
            /\ UNCHANGED <<listening, intercepting, failed>>
       \/ /\ Settle(t, FALSE, tasks)
          /\ UNCHANGED avatars
    /\ UNCHANGED <<jar, accounts, rules, dynamicRules, hasDNR, badge, watcherVars,
                   response, navigation, compiled, histVars>>

\* await setBadgeText(account.slice(0, 2))
SyncSetBadge(t) ==
    /\ tasks[t].pc = "setBadgeText"
    /\ badge' = SliceTo(tasks[t].account, BADGE_LEN)
    /\ Settle(t, TRUE, tasks)
    /\ UNCHANGED <<jar, accounts, rules, dynamicRules, hasDNR, avatars, watcherVars,
                   response, navigation, compiled, histVars>>

(***************************************************************************)
(* removeAccount and updateDynamicRequestRules.                            *)
(***************************************************************************)
\* await accountService.remove(accountName), then updateDynamicRequestRules() up
\* to its first await
RemoveAccountStep(t) ==
    /\ tasks[t].pc = "accounts.remove"
    /\ accounts' = AccountRemove(accounts, tasks[t].account)
    /\ IF hasDNR
       THEN /\ tasks' = Interfere(Goto(t, "getDynamicRules"), t)
            /\ UNCHANGED <<listening, intercepting, failed>>
       ELSE Settle(t, TRUE, tasks)
    /\ UNCHANGED <<jar, rules, dynamicRules, hasDNR, avatars, badge, watcherVars,
                   response, navigation, compiled, histVars>>

ExistingIdsNone(t) == {}

ExistingIdsReAdded(t) ==
    RuleIds(dynamicRules) \cap {i + ID_OFFSET : i \in 0..(Len(rules) - 1)}

\* const existingRules = await getDynamicRules(); removeRuleIds = their ids
ExistingIds(t) == RuleIds(dynamicRules)

ReconcileGetExisting(t) ==
    /\ tasks[t].pc = "getDynamicRules"
    /\ tasks' = [tasks EXCEPT ![t].removeRuleIds = ExistingIds(t),
                              ![t].interfered = FALSE,
                              ![t].pc = "rules.getAll"]
    /\ UNCHANGED <<envVars, listening, intercepting, failed, watcherVars, response, navigation, compiled,
                   histVars>>

\* buildAddRules: const autoSwitchRules = await ruleService.getAll()
ReconcileGetRules(t) ==
    /\ tasks[t].pc = "rules.getAll"
    /\ tasks' = [tasks EXCEPT ![t].autoSwitchRules = rules,
                              ![t].index = 0,
                              ![t].requestRules = <<>>,
                              ![t].pc = IF Len(rules) = 0 THEN "update" ELSE "find"]
    /\ UNCHANGED <<envVars, listening, intercepting, failed, watcherVars, response, navigation, compiled,
                   histVars>>

\* buildAddRules: one turn of the loop, at its await of accountService.find
ReconcileFind(t) ==
    /\ tasks[t].pc = "find"
    /\ LET task == tasks[t]
           next == task.index + 1
       IN  tasks' = [tasks EXCEPT
                ![t].requestRules = BuildAddRulesStep(accounts, task.autoSwitchRules,
                                                      task.index, task.requestRules),
                ![t].index = next,
                ![t].pc = IF next >= Len(task.autoSwitchRules) THEN "update" ELSE "find"]
    /\ UNCHANGED <<envVars, listening, intercepting, failed, watcherVars, response, navigation, compiled,
                   histVars>>

AddRulesNotInstalled(t) ==
    SelectSeq(tasks[t].requestRules, LAMBDA r : r.id \notin tasks[t].removeRuleIds)

\* the addRules handed to updateDynamicRules
AddRules(t) == tasks[t].requestRules

\* await updateDynamicRules({ removeRuleIds, addRules })
ReconcileUpdate(t) ==
    /\ tasks[t].pc = "update"
    /\ LET task == tasks[t]
           res == UpdateDynamicRules(dynamicRules, task.removeRuleIds, AddRules(t))
       IN  IF res.ok
           THEN /\ dynamicRules' = res.rules
                /\ tasks' = Interfere(Goto(t, "logRules"), t)
                /\ lastReconcile' = [valid |-> TRUE, clean |-> ~task.interfered,
                                     rules |-> rules, accounts |-> accounts,
                                     addRules |-> AddRules(t),
                                     before |-> dynamicRules, after |-> res.rules,
                                     prev |-> Earlier(lastReconcile),
                                     kind |-> task.kind, account |-> task.account,
                                     alone |-> ~task.mixed]
                /\ UNCHANGED <<listening, intercepting, failed, rejected>>
           ELSE /\ Settle(t, FALSE, tasks)
                /\ rejected' = TRUE
                /\ UNCHANGED <<dynamicRules, lastReconcile>>
    /\ UNCHANGED <<jar, accounts, rules, hasDNR, avatars, badge, watcherVars, response, navigation,
                   compiled, nEvents, lastEvent, sinceEvent, burstEvents, nMessages,
                   nRuleEdits>>

\* const rules = await getDynamicRules() (logged only); the caller goes on
ReconcileLog(t) ==
    /\ tasks[t].pc = "logRules"
    /\ IF tasks[t].kind = "sync"
       THEN /\ tasks' = Goto(t, "fetch")
            /\ UNCHANGED <<listening, intercepting, failed>>
       ELSE Settle(t, TRUE, tasks)
    /\ UNCHANGED <<envVars, watcherVars, response, navigation, compiled, histVars>>

\* the call task t awaits rejects: the async function throws there, with the
\* stores as they are; the timer callback's catch (line 152) and listenMessage's
\* try (lines 200-205) take the rejection, init() does not
AwaitRejects(t) ==
    /\ tasks[t].kind # "none"
    /\ Settle(t, FALSE, tasks)
    /\ UNCHANGED <<envVars, watcherVars, response, navigation, compiled, histVars>>

(***************************************************************************)
(* watchCookies: scheduleSync and the cookies.onChanged listener.          *)
(***************************************************************************)
\* setTimeout(callback, DEBOUNCE_MS), on the watcher's state
\* w = [syncTimer, timers, fresh]: fresh is the id the call returns
SetTimeout(w, pending) ==
    [syncTimer |-> w.fresh,
     timers |-> pending \cup {[id |-> w.fresh, remaining |-> DEBOUNCE_MS]},
     fresh |-> w.fresh + 1]

ScheduleSyncNoClear(w) == SetTimeout(w, w.timers)

ScheduleSyncKeepsPending(w) ==
    IF w.syncTimer # 0 THEN w ELSE SetTimeout(w, w.timers)

ScheduleSyncUnlessSyncing(w) ==
    IF \E t \in TaskIds : tasks[t].kind = "sync" THEN w
    ELSE SetTimeout(w, {x \in w.timers : x.id # w.syncTimer})

ScheduleSync(w) ==
    LET cleared == IF w.syncTimer # 0                         \* clearTimeout(syncTimer)
                   THEN {x \in w.timers : x.id # w.syncTimer}
                   ELSE w.timers
    IN  SetTimeout(w, cleared)

OnChangedArmsOnRemoval(changeInfo, w) ==
    IF changeInfo.name \notin AUTH_COOKIES THEN [w |-> w, badgeTexts |-> <<>>]
    ELSE IF changeInfo.removed /\ changeInfo.name = "dotcom_user"
         THEN [w |-> ScheduleSync(w), badgeTexts |-> <<"...">>]
         ELSE [w |-> ScheduleSync(w), badgeTexts |-> <<>>]

OnChangedIgnoresSso(changeInfo, w) ==
    IF changeInfo.name \notin {"dotcom_user"} THEN [w |-> w, badgeTexts |-> <<>>]
    ELSE IF changeInfo.removed
         THEN [w |-> w, badgeTexts |-> <<"...">>]
         ELSE [w |-> ScheduleSync(w), badgeTexts |-> <<>>]

\* the listener: the watcher's state afterwards and its setBadgeText calls
OnChanged(changeInfo, w) ==
    IF changeInfo.name \notin AUTH_COOKIES THEN [w |-> w, badgeTexts |-> <<>>]
    ELSE IF changeInfo.removed
         THEN [w |-> w,
               badgeTexts |-> IF changeInfo.name = "dotcom_user" THEN <<"...">> ELSE <<>>]
         ELSE [w |-> ScheduleSync(w), badgeTexts |-> <<>>]

\* the platform numbers its timeouts; the model numbers them by the cookie change
\* whose listener sets them
\* a qualifying change: a cookie of the allow-list is added or updated
Qualifying(changeInfo) == changeInfo.name \in AUTH_COOKIES /\ ~changeInfo.removed

Watcher == [syncTimer |-> syncTimer, timers |-> timers, fresh |-> nEvents + 1]

\* the cookie store changes and, once init() has registered it, the listener runs
CookieChanged(name, removed, value) ==
    /\ nEvents < MaxEvents
    /\ removed => jar[name].found
    /\ jar' = [jar EXCEPT ![name] = IF removed THEN NoCookie
                                    ELSE [found |-> TRUE, value |-> value]]
    /\ nEvents' = nEvents + 1
    /\ tasks' = IF jar' # jar THEN Disturb(tasks) ELSE tasks
    /\ IF listening
       THEN LET changeInfo == [name |-> name, removed |-> removed, value |-> value]
                out == OnChanged(changeInfo, Watcher)
            IN  /\ syncTimer' = out.w.syncTimer
                /\ timers' = out.w.timers
                /\ badge' = IF out.badgeTexts = <<>> THEN badge
                            ELSE out.badgeTexts[Len(out.badgeTexts)]
                /\ lastEvent' = [name |-> name, removed |-> removed, heard |-> TRUE,
                                 pending |-> {x.id : x \in timers},
                                 armed |-> IF out.w.fresh # nEvents + 1
                                           THEN out.w.syncTimer ELSE 0,
                                 badgeTexts |-> out.badgeTexts,
                                 failedBefore |-> failed,
                                 syncing |-> \E t \in TaskIds : tasks[t].kind = "sync"]
                /\ sinceEvent' = IF Qualifying(changeInfo) THEN 0 ELSE sinceEvent
                /\ burstEvents' = IF Qualifying(changeInfo) THEN burstEvents + 1
                                  ELSE burstEvents
       ELSE /\ lastEvent' = [NoEvent EXCEPT !.name = name, !.removed = removed,
                                          !.failedBefore = failed]
            /\ UNCHANGED <<watcherVars, badge, sinceEvent, burstEvents>>
    /\ UNCHANGED <<accounts, rules, dynamicRules, hasDNR, avatars, listening,
                   intercepting, failed, response, navigation, compiled, nMessages, nRuleEdits, rejected,
                   lastReconcile>>

\* TickMs pass
Tick ==
    /\ (\E x \in timers : x.remaining > 0) \/ sinceEvent < DEBOUNCE_MS
    /\ timers' = {[x EXCEPT !.remaining = Max(0, x.remaining - TickMs)] : x \in timers}
    /\ sinceEvent' = Min(DEBOUNCE_MS, sinceEvent + TickMs)
    /\ UNCHANGED <<envVars, listening, intercepting, failed, syncTimer, tasks, response, navigation,
                   compiled, nEvents, lastEvent, burstEvents, nMessages, nRuleEdits,
                   rejected, lastReconcile>>

CallbackKeepsSyncTimer(x) == x.id

\* the callback's last statement: syncTimer = undefined
CallbackSyncTimer(x) == 0

\* a timeout expires: syncAccounts() runs up to its first await, with the
\* rejection handler attached, and syncTimer = undefined
TimerFire(x) ==
    /\ x \in timers
    /\ x.remaining = 0
    /\ Free # {}
    /\ timers' = timers \ {x}
    /\ syncTimer' = CallbackSyncTimer(x)
    /\ tasks' = [tasks EXCEPT ![FreeSlot] =
                    [NoTask EXCEPT !.kind = "sync", !.origin = "timer",
                                   !.pc = "cookie.get:user",
                                   !.expiryJar = jar, !.gap = sinceEvent,
                                   !.burst = burstEvents]]
    /\ burstEvents' = 0
    /\ UNCHANGED <<envVars, listening, intercepting, failed, response, navigation, compiled, nEvents,
                   lastEvent, sinceEvent, nMessages, nRuleEdits, rejected,
                   lastReconcile>>

(***************************************************************************)
(* listenMessage / handleMessage: removeAccount.                           *)
(***************************************************************************)
OnMessageRemoveAccount(accountName) ==
    /\ listening
    /\ nMessages < MaxMessages
    /\ Free # {}
    /\ nMessages' = nMessages + 1
    /\ tasks' = [tasks EXCEPT ![FreeSlot] =
                    [NoTask EXCEPT !.kind = "remove", !.origin = "message",
                                   !.pc = "accounts.remove", !.account = accountName]]
    /\ UNCHANGED <<envVars, listening, intercepting, failed, watcherVars, response, navigation, compiled,
                   nEvents, lastEvent, sinceEvent, burstEvents, nRuleEdits, rejected,
                   lastReconcile>>

(***************************************************************************)
(* The rule list is edited (by the options page, through ruleService).     *)
(***************************************************************************)
RuleSet == [account : AccountNames, urlPattern : UrlPatterns]

RuleEdit ==
    /\ nRuleEdits < MaxRuleEdits
    /\ nRuleEdits' = nRuleEdits + 1
    /\ \/ \E r \in RuleSet : rules' = Append(rules, r)
       \/ rules # <<>> /\ rules' = Tail(rules)
    /\ tasks' = Interfere(tasks, 0)
    /\ UNCHANGED <<jar, accounts, dynamicRules, hasDNR, avatars, badge, listening,
                   intercepting, failed, watcherVars, response, navigation, compiled, nEvents, lastEvent,
                   sinceEvent, burstEvents, nMessages, rejected, lastReconcile>>

(***************************************************************************)
(* The interceptor answers a request; buildAddRules runs on its own.       *)
(***************************************************************************)
HeaderLists ==
    {<<[name |-> "Cookie", value |-> "foo=bar"]>>,
     <<[name |-> "Accept", value |-> "*/*"], [name |-> "cookie", value |-> "foo=bar"]>>,
     <<[name |-> "Accept", value |-> "*/*"]>>}

Requests ==
    [url : Urls,
     requestHeaders : {NoHeaders} \cup {[present |-> TRUE, list |-> h] : h \in HeaderLists}]

OnBeforeSendHeaders(details) ==
    /\ intercepting
    /\ response' = [url |-> details.url, sent |-> details.requestHeaders,
                    requestHeaders |-> InterceptRequest(details, rules, accounts)]
    /\ UNCHANGED <<envVars, listening, intercepting, failed, watcherVars, tasks,
                   navigation, compiled, histVars>>

(***************************************************************************)
(* watchAutoSwitchRequests: the onBeforeRequest listener.                  *)
(***************************************************************************)
\* the requests a page may make: top-level navigations and frames, to the
\* target origin and elsewhere
NavigationDetails ==
    [url : Urls \cup {"https://example.com/orgA"}, type : {"main_frame", "sub_frame"}]

\* the listener's filter: urls ['https://github.com/*'], types ['main_frame']
Observed(details) ==
    /\ details.type = "main_frame"
    /\ Len(details.url) >= Len("https://github.com/")
    /\ SubSeq(details.url, 1, Len("https://github.com/")) = "https://github.com/"

RECURSIVE SwitchFromCombined(_, _, _)
SwitchFromCombined(autoSwitchRules, url, i) ==
    IF i > Len(autoSwitchRules) THEN <<>>
    ELSE IF RegExpTest(CombinedPattern(autoSwitchRules[i]), url)
         THEN <<autoSwitchRules[i].account>>
         ELSE SwitchFromCombined(autoSwitchRules, url, i + 1)

\* the loop of the then-callback, from the rule at position i: the accounts
\* accountService.switchTo is called with
RECURSIVE SwitchFrom(_, _, _)
SwitchFrom(autoSwitchRules, url, i) ==
    IF i > Len(autoSwitchRules) THEN <<>>
    ELSE IF RegExpTest(autoSwitchRules[i].urlPattern, url)
         THEN <<autoSwitchRules[i].account>>
         ELSE SwitchFrom(autoSwitchRules, url, i + 1)

\* the listener: it calls ruleService.getAll() and returns undefined
OnBeforeRequest(details) ==
    /\ listening
    /\ Observed(details)
    /\ ~navigation.pending
    /\ navigation' = [NoNavigation EXCEPT !.url = details.url, !.seen = TRUE,
                                          !.pending = TRUE]
    /\ UNCHANGED <<envVars, listening, intercepting, failed, watcherVars, tasks,
                   response, compiled, histVars>>

\* ruleService.getAll() resolves and the then-callback runs
OnRulesRead ==
    /\ navigation.pending
    /\ navigation' = [navigation EXCEPT !.pending = FALSE,
                                        !.autoSwitchRules = rules,
                                        !.intents = SwitchFrom(rules, navigation.url, 1)]
    /\ UNCHANGED <<envVars, listening, intercepting, failed, watcherVars, tasks,
                   response, compiled, histVars>>

\* buildAddRules() runs to its end with the stores as they are
Compile ==
    /\ hasDNR
    /\ compiled' = [ran |-> TRUE, requestRules |-> BuildAddRules(rules, accounts)]
    /\ UNCHANGED <<envVars, listening, intercepting, failed, watcherVars, tasks, response, navigation,
                   histVars>>

(***************************************************************************)
(* Initial states and specifications.                                      *)
(***************************************************************************)
Cookie(v) == [found |-> TRUE, value |-> v]

\* the cookie store of a browser signed in as alice
SignedInJar ==
    [EmptyJar EXCEPT !["dotcom_user"] = Cookie("alice"), !["user_session"] = Cookie("1"),
                     !["logged_in"] = Cookie("1")]

NoAccounts == [n \in AccountNames |-> NoAccount]

\* the snapshots an account may hold
Snapshots ==
    {<<>>,
     <<[name |-> "s", value |-> "x"]>>,
     <<[name |-> "a", value |-> "1"], [name |-> "b", value |-> "2"]>>}

AccountStores ==
    [AccountNames -> {NoAccount} \cup {[known |-> TRUE, cookies |-> c] : c \in Snapshots}]

RECURSIVE RuleLists(_)
RuleLists(n) ==
    IF n = 0 THEN {<<>>}
    ELSE RuleLists(n - 1) \cup
         {Append(l, r) : l \in {k \in RuleLists(n - 1) : Len(k) = n - 1}, r \in RuleSet}

\* init() has called syncAccounts(), which is at its first await
InitTask ==
    [NoTask EXCEPT !.kind = "sync", !.origin = "init", !.pc = "cookie.get:user"]

InitHistory ==
    /\ nEvents = 0
    /\ lastEvent = NoEvent
    /\ sinceEvent = DEBOUNCE_MS
    /\ burstEvents = 0
    /\ nMessages = 0
    /\ nRuleEdits = 0
    /\ rejected = FALSE
    /\ lastReconcile = NoReconcile

\* the background script has just been loaded
Init ==
    /\ jar \in {EmptyJar, SignedInJar}
    /\ accounts = NoAccounts
    /\ rules = <<[account |-> "alice", urlPattern |-> "/orgA"]>>
    /\ dynamicRules = {}
    /\ hasDNR \in BOOLEAN
    /\ avatars = {}
    /\ badge = ""
    /\ listening = FALSE
    /\ intercepting = FALSE
    /\ failed = {}
    /\ syncTimer = 0
    /\ timers = {}
    /\ tasks = [t \in TaskIds |-> IF t = 1 THEN InitTask ELSE NoTask]
    /\ response = NoResponse
    /\ navigation = NoNavigation
    /\ compiled = NotCompiled
    /\ InitHistory

TaskStep(t) ==
    \/ SyncGetUser(t)
    \/ SyncGetSession(t)
    \/ SyncGetAllCookies(t)
    \/ SyncUpsert(t)
    \/ SyncListAccounts(t)
    \/ RemoveAccountStep(t)
    \/ ReconcileGetExisting(t)
    \/ ReconcileGetRules(t)
    \/ ReconcileFind(t)
    \/ ReconcileUpdate(t)
    \/ ReconcileLog(t)
    \/ SyncFetchAvatar(t)
    \/ SyncSetBadge(t)

\* the steps of syncAccounts where declarativeNetRequest is absent
SyncStep(t) ==
    \/ SyncGetUser(t)
    \/ SyncGetSession(t)
    \/ SyncGetAllCookies(t)
    \/ SyncUpsert(t)
    \/ SyncListAccounts(t)
    \/ SyncFetchAvatar(t)
    \/ SyncSetBadge(t)

CookieEvent ==
    \E name \in CookieNames :
        \/ \E value \in CookieValues(name) : CookieChanged(name, FALSE, value)
        \/ CookieChanged(name, TRUE, "")

\* a timeout expires, whatever is in flight
Expiry == \E x \in timers : TimerFire(x)

\* a timeout expires, with fewer than MaxSyncs of the timer's syncs in flight
TimerExpiry ==
    /\ Cardinality({t \in TaskIds : tasks[t].origin = "timer"}) < MaxSyncs
    /\ Expiry

Navigation == \E d \in NavigationDetails : OnBeforeRequest(d)

Rejection == \E t \in TaskIds : AwaitRejects(t)

Next ==
    \/ \E t \in TaskIds : TaskStep(t)
    \/ Rejection
    \/ Navigation
    \/ OnRulesRead
    \/ CookieEvent
    \/ Tick
    \/ TimerExpiry
    \/ \E a \in AccountNames : OnMessageRemoveAccount(a)
    \/ RuleEdit
    \/ \E d \in Requests : OnBeforeSendHeaders(d)

Spec == Init /\ [][Next]_vars

\* init() is over: its sync has returned and its listeners are registered
InitRunning ==
    /\ avatars = {}
    /\ badge = ""
    /\ listening = TRUE
    /\ intercepting = ~hasDNR
    /\ failed = {}
    /\ syncTimer = 0
    /\ timers = {}
    /\ tasks = [t \in TaskIds |-> NoTask]
    /\ response = NoResponse
    /\ navigation = NoNavigation
    /\ compiled = NotCompiled
    /\ InitHistory

InitWatcher ==
    /\ jar \in {EmptyJar, SignedInJar}
    /\ accounts = NoAccounts
    /\ rules = <<[account |-> "alice", urlPattern |-> "/orgA"]>>
    /\ dynamicRules = {}
    /\ hasDNR = FALSE
    /\ InitRunning

\* the cookie watcher: cookie changes, the debounce timer and its syncs
NextWatcher ==
    \/ \E t \in TaskIds : SyncStep(t)
    \/ CookieEvent
    \/ Tick
    \/ TimerExpiry

SpecWatcher == InitWatcher /\ [][NextWatcher]_vars

\* the rule compiler and the interceptor, each run against stores drawn at will
InitPure ==
    /\ jar = EmptyJar
    /\ accounts \in AccountStores
    /\ rules \in RuleLists(MaxRules)
    /\ dynamicRules = {}
    /\ hasDNR \in BOOLEAN
    /\ InitRunning

NextPure ==
    \/ Compile
    \/ \E d \in Requests : OnBeforeSendHeaders(d)

SpecPure == InitPure /\ [][NextPure]_vars

\* a sync the debounce timer has just started, at its first await
TimerTask ==
    [NoTask EXCEPT !.kind = "sync", !.origin = "timer", !.pc = "cookie.get:user",
                   !.expiryJar = SignedInJar, !.gap = DEBOUNCE_MS, !.burst = 1]

\* filter rules left installed by earlier runs, for rule lists and snapshots
\* that may have changed since
InstalledSets ==
    {{},
     {RequestRule(0, [account |-> "alice", urlPattern |-> "/orgA"], "old=1; __account__=alice")},
     {RequestRule(0, [account |-> "bob", urlPattern |-> "/orgB"], "old=1; __account__=bob"),
      RequestRule(MaxRules, [account |-> "alice", urlPattern |-> "/orgB"],
                  "old=2; __account__=alice")}}

\* declarativeNetRequest is present: what every run of
\* updateDynamicRequestRules starts from
ReconcileRunning ==
    /\ jar = SignedInJar
    /\ hasDNR = TRUE
    /\ avatars = {}
    /\ badge = ""
    /\ listening = TRUE
    /\ intercepting = FALSE
    /\ failed = {}
    /\ syncTimer = 0
    /\ timers = {}
    /\ response = NoResponse
    /\ navigation = NoNavigation
    /\ compiled = NotCompiled
    /\ InitHistory

\* removeAccount messages and edits of the rule list drive
\* updateDynamicRequestRules, over what earlier runs left installed
InitReconcile ==
    /\ accounts \in {a \in AccountStores :
                        /\ a["alice"].cookies = <<[name |-> "s", value |-> "x"]>>
                        /\ Len(a["bob"].cookies) <= 1}
    /\ rules \in {<<[account |-> "alice", urlPattern |-> "/orgA"]>>,
                 <<[account |-> "alice", urlPattern |-> "/orgA"],
                   [account |-> "bob", urlPattern |-> "/orgB"]>>}
    /\ dynamicRules \in InstalledSets
    /\ tasks = [t \in TaskIds |-> NoTask]
    /\ ReconcileRunning

\* the steps of removeAccount
RemoveStep(t) ==
    \/ RemoveAccountStep(t)
    \/ ReconcileGetExisting(t)
    \/ ReconcileGetRules(t)
    \/ ReconcileFind(t)
    \/ ReconcileUpdate(t)
    \/ ReconcileLog(t)

RemoveMessage == \E a \in AccountNames : OnMessageRemoveAccount(a)

NextReconcile ==
    \/ \E t \in TaskIds : RemoveStep(t)
    \/ RemoveMessage
    \/ RuleEdit

SpecReconcile == InitReconcile /\ [][NextReconcile]_vars

\* a debounced sync, just started, races removeAccount messages
InitRace ==
    /\ accounts \in {a \in AccountStores :
                        /\ a["alice"] = NoAccount
                        /\ a["bob"].cookies = <<[name |-> "s", value |-> "x"]>>}
    /\ rules = <<[account |-> "alice", urlPattern |-> "/orgA"],
                 [account |-> "bob", urlPattern |-> "/orgB"]>>
    /\ dynamicRules \in {{}, Compiled(rules, accounts)}
    /\ tasks = [t \in TaskIds |-> IF t = 1 THEN TimerTask ELSE NoTask]
    /\ ReconcileRunning

NextRace ==
    \/ \E t \in TaskIds : TaskStep(t)
    \/ RemoveMessage

SpecRace == InitRace /\ [][NextRace]_vars

\* the steps of updateDynamicRequestRules
ReconcileStep(t) ==
    \/ ReconcileGetExisting(t)
    \/ ReconcileGetRules(t)
    \/ ReconcileFind(t)
    \/ ReconcileUpdate(t)
    \/ ReconcileLog(t)

\* the cookie watcher with declarativeNetRequest present, where any awaited
\* call of a sync may reject
InitFailing ==
    /\ jar = SignedInJar
    /\ accounts = NoAccounts
    /\ rules = <<[account |-> "alice", urlPattern |-> "/orgA"]>>
    /\ dynamicRules = {}
    /\ hasDNR = TRUE
    /\ InitRunning

NextFailing ==
    \/ \E t \in TaskIds : SyncStep(t)
    \/ \E t \in TaskIds : ReconcileStep(t)
    \/ Rejection
    \/ CookieEvent
    \/ Tick
    \/ TimerExpiry

\* time passes, expired timeouts run their callback and awaited calls settle
Fairness ==
    /\ WF_vars(Tick)
    /\ WF_vars(TimerExpiry)
    /\ \A t \in TaskIds : WF_vars(SyncStep(t) \/ ReconcileStep(t))

SpecFailing == InitFailing /\ [][NextFailing]_vars /\ Fairness

\* the background script from its load on: the first sync, then the cookie
\* watcher, with any awaited call free to reject
NextStartup ==
    \/ \E t \in TaskIds : SyncStep(t)
    \/ \E t \in TaskIds : ReconcileStep(t)
    \/ Rejection
    \/ CookieEvent
    \/ Tick
    \/ TimerExpiry

SpecStartup == Init /\ [][NextStartup]_vars

\* the cookie watcher, with as many syncs in flight as there are expiries
NextReentrant ==
    \/ \E t \in TaskIds : SyncStep(t)
    \/ CookieEvent
    \/ Tick
    \/ Expiry

SpecReentrant ==
    /\ InitWatcher
    /\ [][NextReentrant]_vars
    /\ WF_vars(Tick)
    /\ WF_vars(Expiry)
    /\ \A t \in TaskIds : WF_vars(SyncStep(t))

\* the navigation watcher, with the rule list edited meanwhile
InitNavigation ==
    /\ jar = SignedInJar
    /\ accounts = NoAccounts
    /\ rules \in RuleLists(MaxRules)
    /\ dynamicRules = {}
    /\ hasDNR \in BOOLEAN
    /\ InitRunning

NextNavigation ==
    \/ Navigation
    \/ OnRulesRead
    \/ RuleEdit

SpecNavigation == InitNavigation /\ [][NextNavigation]_vars

\* another identity signs in: dotcom_user becomes bob
IdentityChange == CookieChanged("dotcom_user", FALSE, "bob")

\* the cookie watcher and its syncs, with the identity changing under them
NextSnapshot ==
    \/ \E t \in TaskIds : SyncStep(t)
    \/ CookieEvent
    \/ IdentityChange
    \/ Tick
    \/ TimerExpiry

SpecSnapshot == InitWatcher /\ [][NextSnapshot]_vars

(***************************************************************************)
(* Properties of the cookie watcher.                                       *)
(***************************************************************************)
TimerSyncs == {t \in TaskIds : tasks[t].origin = "timer"}

\* the reads of a sync are over and their result not yet stored
ReadsDone(t) == tasks[t].pc = "upsert"

\* every sync the timer started answers a burst of at least one qualifying
\* change, and started DEBOUNCE_MS or more after the last of them; changes not
\* yet answered have exactly one timer pending, and no timer is pending otherwise
OneSyncPerBurst ==
    /\ \A t \in TimerSyncs : tasks[t].burst >= 1 /\ tasks[t].gap >= DEBOUNCE_MS
    /\ burstEvents = 0 => timers = {}
    /\ burstEvents > 0 => Cardinality(timers) = 1

\* what a sync read is the cookie store as it was when the timer expired
ReadAtExpiry(t) ==
    /\ tasks[t].cookies = CookieGetAll(tasks[t].expiryJar)
    /\ tasks[t].account = tasks[t].expiryJar["dotcom_user"].value

\* C1, as stated: a burst of qualifying cookie changes, each less than 300 ms
\* after the one before, gives exactly one sync, started when the timer of the
\* last change expires, and that sync reads the cookie store as it is at that
\* expiry.
C1_ReadsStoreAsAtExpiry ==
    /\ OneSyncPerBurst
    /\ \A t \in TimerSyncs : ReadsDone(t) => ReadAtExpiry(t)

\* C1, amended: a burst gives exactly one sync, started when the timer of the
\* last change expires; the sync reads the cookie store after that expiry, and
\* what it reads is the store as it was at the expiry whenever the store did not
\* change between the expiry and the reads.
C1_DebounceCoalesces ==
    /\ OneSyncPerBurst
    /\ \A t \in TimerSyncs : ReadsDone(t) /\ ~tasks[t].disturbed => ReadAtExpiry(t)

\* a burst of two or more changes was answered by one sync, whose reads are over
C1_Witness ==
    \E t \in TimerSyncs :
        /\ tasks[t].burst >= 2
        /\ ReadsDone(t)
        /\ ~tasks[t].disturbed
        /\ tasks[t].account = "alice"
        /\ burstEvents = 0
        /\ timers = {}

\* C2: at most one debounce timer is pending in every state, and it is the one
\* syncTimer refers to: arming cancels the timer that was pending.
C2_AtMostOneTimer ==
    /\ Cardinality(timers) <= 1
    /\ \A x \in timers : x.id = syncTimer
    /\ syncTimer # 0 => \E x \in timers : x.id = syncTimer

\* a qualifying change arrived while a timer was pending, and armed another
C2_Witness ==
    /\ lastEvent.pending # {}
    /\ lastEvent.armed # 0
    /\ lastEvent.armed \notin lastEvent.pending
    /\ timers = {[id |-> lastEvent.armed, remaining |-> DEBOUNCE_MS]}

\* the listener heard a change of a cookie of the allow-list
HeardAuthChange == lastEvent.heard /\ lastEvent.name \in AUTH_COOKIES

\* the change armed the timer: until it expires or is cancelled, the timer it set
\* is the one pending, with DEBOUNCE_MS less the time since to run
ArmedByLastEvent ==
    /\ lastEvent.armed # 0
    /\ \A x \in timers : x.id = lastEvent.armed
                         /\ x.remaining = Max(0, DEBOUNCE_MS - sinceEvent)

\* C3, as stated: every change of a cookie of the allow-list other than the
\* removal of dotcom_user (re)arms the debounce timer, the removal of
\* user_session, _gh_sso or logged_in included.
C3_EveryOtherChangeArms ==
    HeardAuthChange /\ ~(lastEvent.removed /\ lastEvent.name = "dotcom_user")
        => ArmedByLastEvent

\* C3, amended: every addition or update of a cookie of the allow-list (re)arms
\* the debounce timer with 300 ms; the removal of a cookie of the allow-list,
\* dotcom_user or not, arms no timer and leaves a pending one as it is.
C3_NonRemovalArms ==
    HeardAuthChange =>
        IF lastEvent.removed
        THEN lastEvent.armed = 0 /\ {x.id : x \in timers} \subseteq lastEvent.pending
        ELSE ArmedByLastEvent

\* an update of _gh_sso re-armed the timer that was pending
C3_Witness ==
    /\ HeardAuthChange
    /\ lastEvent.name = "_gh_sso"
    /\ ~lastEvent.removed
    /\ lastEvent.pending # {}
    /\ timers = {[id |-> lastEvent.armed, remaining |-> DEBOUNCE_MS]}

\* the step is the listener's handling of a removal of dotcom_user
RemovalOfUser ==
    /\ nEvents' = nEvents + 1
    /\ lastEvent'.heard
    /\ lastEvent'.name = "dotcom_user"
    /\ lastEvent'.removed

\* C4: handling a removal of dotcom_user makes exactly one badge update, to
\* '...', and nothing else: no timer is armed or cancelled, no sync starts or
\* moves, the account store and the installed rules stay as they are.
C4_RemovalOnlyUpdatesBadge ==
    [][RemovalOfUser =>
          /\ lastEvent'.badgeTexts = <<"...">>
          /\ badge' = "..."
          /\ lastEvent'.armed = 0
          /\ UNCHANGED <<syncTimer, timers, accounts, dynamicRules, avatars, rules>>
          /\ \A t \in TaskIds : /\ tasks'[t].kind = tasks[t].kind
                                /\ tasks'[t].pc = tasks[t].pc]_vars

\* dotcom_user was removed while a timer was pending, which still is
C4_Witness ==
    /\ lastEvent.heard
    /\ lastEvent.name = "dotcom_user"
    /\ lastEvent.removed
    /\ lastEvent.badgeTexts = <<"...">>
    /\ badge = "..."
    /\ lastEvent.pending # {}
    /\ {x.id : x \in timers} = lastEvent.pending

(***************************************************************************)
(* Properties of the rule compiler and of the interceptor.                 *)
(***************************************************************************)
\* the account has at least one stored cookie
HasCookies(accountName) ==
    accounts[accountName].known /\ Len(accounts[accountName].cookies) > 0

\* name=value of each cookie in order, each followed by "; "
RECURSIVE PairsThen(_, _)
PairsThen(cookies, last) ==
    IF cookies = <<>> THEN last
    ELSE cookies[1].name \o "=" \o cookies[1].value \o "; " \o PairsThen(Tail(cookies), last)

\* the Cookie value of an account: its pairs, then __account__=<account>
CookieValueOf(accountName) ==
    PairsThen(accounts[accountName].cookies, "__account__=" \o accountName)

\* the rule's urlPattern, or the marker of its account, occurs in the url
Matches(rule, url) ==
    IsInfix(rule.urlPattern, url) \/ IsInfix("__account__=" \o rule.account, url)

Positions == 1..Len(rules)

\* C5: buildAddRules emits, in the order of the rule list, one filter rule for
\* each rule whose account has a stored cookie and none for the others; the
\* rule at 0-based position i gets id i + 1 whether or not rules before it
\* were skipped, so the ids are distinct and increasing.
C5_IdsFollowPositions ==
    compiled.ran =>
        LET out == compiled.requestRules
        IN  /\ \A p \in Positions :
                  HasCookies(rules[p].account) <=>
                      \E k \in 1..Len(out) : out[k].id = (p - 1) + 1
            /\ \A k \in 1..Len(out) :
                  /\ out[k].id \in Positions
                  /\ out[k].priority = 1
                  /\ out[k].condition.regexFilter =
                        rules[out[k].id].urlPattern \o "|__account__="
                            \o rules[out[k].id].account
                  /\ out[k].action.requestHeaders =
                        <<[header |-> "Cookie", operation |-> "set",
                           value |-> CookieValueOf(rules[out[k].id].account)]>>
            /\ \A k, l \in 1..Len(out) : k < l => out[k].id < out[l].id

\* the first rule was skipped and the second emitted, with id 2
C5_Witness ==
    /\ compiled.ran
    /\ Len(rules) = 2
    /\ ~HasCookies(rules[1].account)
    /\ HasCookies(rules[2].account)
    /\ Len(compiled.requestRules) = 1
    /\ compiled.requestRules[1].id = 2

\* the request the interceptor answered carried a Cookie header
AnsweredWithCookie ==
    /\ response.sent.present
    /\ \E i \in 1..Len(response.sent.list) :
          response.sent.list[i].name \in {"Cookie", "cookie"}

Matching == {p \in Positions : Matches(rules[p], response.url)}
FirstMatch == CHOOSE p \in Matching : \A q \in Matching : p <= q

\* the headers sent, each Cookie header's value replaced by v
WithCookie(v) ==
    [present |-> TRUE,
     list |-> [i \in 1..Len(response.sent.list) |->
                  IF response.sent.list[i].name \in {"Cookie", "cookie"}
                  THEN [name |-> response.sent.list[i].name, value |-> v]
                  ELSE response.sent.list[i]]]

\* C6: for a request with a Cookie header the interceptor applies the first
\* rule, in list order, whose urlPattern or account marker occurs in the url:
\* the Cookie header becomes that account's name=value pairs joined by "; "
\* with __account__=<account> last; no later rule is applied, also when the
\* first match has no cookie value to set.
C6_FirstMatchWins ==
    AnsweredWithCookie =>
        IF Matching = {} THEN response.requestHeaders = response.sent
        ELSE IF HasCookies(rules[FirstMatch].account)
             THEN response.requestHeaders = WithCookie(CookieValueOf(rules[FirstMatch].account))
             ELSE response.requestHeaders = response.sent

\* two rules of different accounts match, and the first one's cookies are set
C6_Witness ==
    /\ AnsweredWithCookie
    /\ Len(rules) = 2
    /\ Matching = {1, 2}
    /\ rules[1].account = "alice"
    /\ rules[2].account = "bob"
    /\ accounts["alice"].cookies = <<[name |-> "s", value |-> "x"]>>
    /\ HasCookies("bob")
    /\ response.sent.list = <<[name |-> "Cookie", value |-> "foo=bar"]>>
    /\ response.requestHeaders.list = <<[name |-> "Cookie", value |-> "s=x; __account__=alice"]>>

\* the installed filter rules, evaluated on a request: of the rules whose
\* regexFilter matches, the one of least id sets the Cookie header
FilterMatching(filterRules) ==
    {r \in filterRules :
        \E p \in Positions : r.id = p /\ Matches(rules[p], response.url)}

FilterRewrite(filterRules) ==
    LET hit == FilterMatching(filterRules)
    IN  IF hit = {} THEN response.sent
        ELSE LET first == CHOOSE r \in hit : \A q \in hit : r.id <= q.id
             IN  WithCookie(first.action.requestHeaders[1].value)

\* C7: a rule whose account is unknown or has no cookies gives no filter rule,
\* and the interceptor handles the request as if the rule were not in the
\* list: it answers as the compiled filter rules, first match in id order, do.
C7_FallbackAgreesWithFilterRules ==
    /\ \A p \in Positions :
          ~HasCookies(rules[p].account) =>
              \A r \in SeqToSet(BuildAddRules(rules, accounts)) : r.id # p
    /\ AnsweredWithCookie =>
          response.requestHeaders = FilterRewrite(SeqToSet(BuildAddRules(rules, accounts)))

(***************************************************************************)
(* Properties of updateDynamicRequestRules.                                *)
(***************************************************************************)
\* the tasks inside updateDynamicRequestRules, at or before its update
Reconciling ==
    {t \in TaskIds : tasks[t].pc \in ReconcilePcs \cup {"getDynamicRules"}}

\* C8: with declarativeNetRequest present, an updateDynamicRequestRules call
\* that no other update, account change or rule edit falls into leaves
\* installed exactly the rules buildAddRules compiles from the rule list and
\* the account store: all that was installed before is gone unless compiled
\* again, whatever was installed before.
C8_FullReplace ==
    (lastReconcile.valid /\ lastReconcile.clean) =>
        /\ lastReconcile.after = Compiled(lastReconcile.rules, lastReconcile.accounts)
        /\ SeqToSet(lastReconcile.addRules) = lastReconcile.after
        /\ \A r \in lastReconcile.before :
              r \in lastReconcile.after => r \in SeqToSet(lastReconcile.addRules)

\* an undisturbed call replaced two stale rules, one of them with an id beyond
\* the rule list, by one fresh rule
C8_Witness ==
    /\ lastReconcile.valid
    /\ lastReconcile.clean
    /\ \E r \in lastReconcile.before : r.id > Len(lastReconcile.rules)
    /\ Cardinality(lastReconcile.after) = 1
    /\ lastReconcile.before \cap lastReconcile.after = {}
    /\ dynamicRules = lastReconcile.after

\* C9: when calls of updateDynamicRequestRules interleave at their awaits,
\* no updateDynamicRules call is rejected, and once none is in flight the
\* installed rules are those compiled by the call whose update went through
\* last.
C9_LastWriterWins ==
    /\ ~rejected
    /\ (lastReconcile.valid /\ Reconciling = {}) =>
           dynamicRules = SeqToSet(lastReconcile.addRules)

\* C10: two updateDynamicRequestRules calls in a row, each undisturbed, with
\* the same rule list and account store, compile the same rules, and the rules
\* installed after the second are those installed after the first.
C10_Idempotent ==
    LET first == lastReconcile.prev
    IN  (/\ lastReconcile.valid /\ lastReconcile.clean
         /\ first.valid /\ first.clean
         /\ first.rules = lastReconcile.rules
         /\ first.accounts = lastReconcile.accounts) =>
            /\ lastReconcile.addRules = first.addRules
            /\ lastReconcile.after = first.after
            /\ lastReconcile.before = first.after

\* the second of two such calls found a rule installed, and installed it again
C10_Witness ==
    /\ lastReconcile.valid /\ lastReconcile.clean
    /\ lastReconcile.prev.valid /\ lastReconcile.prev.clean
    /\ lastReconcile.prev.rules = lastReconcile.rules
    /\ lastReconcile.prev.accounts = lastReconcile.accounts
    /\ lastReconcile.addRules # <<>>
    /\ lastReconcile.after = lastReconcile.prev.after
    /\ dynamicRules = lastReconcile.after

(***************************************************************************)
(* Properties of failing syncs.                                            *)
(***************************************************************************)
\* a sync started by the timer has thrown
TimerSyncFailed == "timer" \in failed

\* the last cookie change came after such a failure, was heard and qualifies
QualifyingAfterFailure ==
    /\ "timer" \in lastEvent.failedBefore
    /\ HeardAuthChange
    /\ ~lastEvent.removed

\* the timer's callback has just called syncAccounts()
SyncJustStarted ==
    /\ syncTimer = 0
    /\ \E t \in TimerSyncs : tasks[t].pc = "cookie.get:user" /\ tasks[t].burst >= 1

\* C11: when a sync started by the timer throws, at whichever await, the
\* listeners stay registered and syncTimer refers to no timeout that has run;
\* every qualifying cookie change after the failure arms the timer as any
\* other does, and the timer it arms leads to a new call of syncAccounts().
C11_FailingSyncKeepsWatcher ==
    /\ [](TimerSyncFailed =>
            /\ listening
            /\ syncTimer # 0 => \E x \in timers : x.id = syncTimer)
    /\ [](QualifyingAfterFailure => ArmedByLastEvent)
    /\ (QualifyingAfterFailure /\ syncTimer # 0) ~> SyncJustStarted

\* after a failed sync a qualifying change armed the timer, which has expired
\* and started the next sync
C11_Witness ==
    /\ QualifyingAfterFailure
    /\ lastEvent.armed # 0
    /\ timers = {}
    /\ SyncJustStarted

(***************************************************************************)
(* Properties of syncAccounts.                                             *)
(***************************************************************************)
\* what the sync of task t finds when its read of user_session returns: the
\* identity cookie it read was absent or empty, or the session cookie is absent
MissingCookie(t) ==
    \/ ~tasks[t].usernameCookie.found
    \/ tasks[t].usernameCookie.value = ""
    \/ ~jar["user_session"].found

\* C12: a sync that finds dotcom_user or user_session absent, or the identity
\* empty, returns there without an error: it goes no further, and the account
\* store, the installed filter rules, the avatars and the badge are as before.
C12_MissingCookieNoOp ==
    [][\A t \in TaskIds :
          (SyncGetSession(t) /\ MissingCookie(t)) =>
              /\ tasks'[t] = NoTask
              /\ failed' = failed
              /\ UNCHANGED <<accounts, dynamicRules, avatars, badge, jar, rules>>]_vars

\* the session cookie went while the first sync was reading: the sync has
\* returned early, without an error, and nothing is stored
C12_Witness ==
    /\ jar["dotcom_user"].found
    /\ ~jar["user_session"].found
    /\ nEvents >= 1
    /\ lastEvent.name = "user_session" /\ lastEvent.removed
    /\ tasks = [t \in TaskIds |-> NoTask]
    /\ ~lastEvent.heard
    /\ accounts = NoAccounts
    /\ failed = {}
    /\ listening

(***************************************************************************)
(* Properties of init().                                                   *)
(***************************************************************************)
\* init() is past its await of syncAccounts(), whichever way that went
StartupOver == \A t \in TaskIds : tasks[t].origin # "init"

\* some call is inside updateDynamicRequestRules, past its first statement
InReconcile ==
    \E t \in TaskIds : tasks[t].pc \in ReconcilePcs \cup {"getDynamicRules", "logRules"}

\* C13: one rewriting path per platform. Without declarativeNetRequest,
\* updateDynamicRequestRules returns at once, the dynamic rules are never
\* touched, and once startup is over the interceptor is registered; with it,
\* the interceptor is never registered.
C13_OnePathPerPlatform ==
    /\ hasDNR => ~intercepting
    /\ ~hasDNR => (~InReconcile /\ dynamicRules = {} /\ ~lastReconcile.valid)
    /\ (~hasDNR /\ StartupOver) => intercepting

(***************************************************************************)
(* Properties of removeAccount.                                            *)
(***************************************************************************)
\* the Cookie value a filter rule sets ends in __account__=<accountName>
Injects(r, accountName) ==
    LET v == r.action.requestHeaders[1].value
        m == "__account__=" \o accountName
    IN  Len(v) >= Len(m) /\ SubSeq(v, Len(v) - Len(m) + 1, Len(v)) = m

\* the last update was that of removeAccount, and since removeAccount removed
\* the account no other operation has changed a store
RemovedAlone ==
    /\ lastReconcile.valid
    /\ lastReconcile.kind = "remove"
    /\ lastReconcile.alone

\* C14: when removeAccount(X) has run with declarativeNetRequest present and
\* nothing else in between, no installed filter rule sets a Cookie value that
\* ends in __account__=X, and every rule of another account that has cookies
\* is installed under the id of its position in the rule list.
C14_RemovedAccountNotInjected ==
    RemovedAlone =>
        LET X == lastReconcile.account
            list == lastReconcile.rules
        IN  /\ \A r \in lastReconcile.after : ~Injects(r, X)
            /\ \A p \in 1..Len(list) :
                  (list[p].account # X /\ Len(lastReconcile.accounts[list[p].account].cookies) > 0)
                      => \E r \in lastReconcile.after :
                            r.id = p /\ Injects(r, list[p].account)

\* alice was removed while rules of alice and of bob were installed: alice's
\* is gone, bob's is installed under id 2
C14_Witness ==
    /\ RemovedAlone
    /\ lastReconcile.account = "alice"
    /\ \E r \in lastReconcile.before : Injects(r, "alice")
    /\ \E r \in lastReconcile.after : r.id = 2 /\ Injects(r, "bob")
    /\ dynamicRules = lastReconcile.after

(***************************************************************************)
(* Properties of syncs in flight.                                          *)
(***************************************************************************)
\* the last cookie change was heard, qualifies, and came with a sync in flight
QualifyingWhileSyncing ==
    /\ HeardAuthChange
    /\ ~lastEvent.removed
    /\ lastEvent.syncing

\* a step of the watcher, a cookie change or an expiry, leaves every call in
\* flight where it is
InFlightUntouched ==
    (nEvents' # nEvents \/ timers' # timers) =>
        \A t \in TaskIds :
            tasks[t].kind # "none" =>
                /\ tasks'[t].kind = tasks[t].kind
                /\ tasks'[t].pc = tasks[t].pc

\* C15: a qualifying cookie change that comes while a sync is in flight arms
\* the timer as any other does; no cookie change and no expiry cancels or
\* moves a call in flight; and every qualifying change heard is followed by an
\* expiry that calls syncAccounts(), whether or not earlier syncs are over.
C15_ReentrantTriggersKept ==
    /\ [](QualifyingWhileSyncing => ArmedByLastEvent)
    /\ [][InFlightUntouched]_vars
    /\ (HeardAuthChange /\ ~lastEvent.removed /\ syncTimer # 0) ~> SyncJustStarted

\* a change that came with a sync in flight has armed the timer, which has
\* expired and started a second sync while the first is still in flight
C15_Witness ==
    /\ QualifyingWhileSyncing
    /\ timers = {}
    /\ SyncJustStarted
    /\ \E t, u \in TaskIds :
          /\ t # u
          /\ tasks[t].origin = "timer" /\ tasks[t].pc = "cookie.get:user"
          /\ tasks[u].origin = "timer" /\ tasks[u].pc \in {"upsert", "fetch", "setBadgeText"}

(***************************************************************************)
(* Properties of the avatar fetch.                                         *)
(***************************************************************************)
\* the fetch of task t's sync is over in this step
FetchOver(t) ==
    /\ tasks[t].kind = "sync"
    /\ tasks[t].pc = "fetch"
    /\ tasks'[t] # tasks[t]

\* C16: the fetch comes after the upsert and the update of the filter rules;
\* whether or not it succeeds, be it a response other than 200 or a request
\* that fails, the sync goes on to set the badge to the first two characters
\* of the identity and ends without an error; an avatar is saved by a
\* successful fetch only.
C16_AvatarBestEffort ==
    [][\A t \in TaskIds :
          /\ FetchOver(t) =>
                /\ accounts[tasks[t].account].known
                /\ hasDNR => lastReconcile.valid
                /\ avatars' \in {avatars, avatars \cup {tasks[t].account}}
                /\ tasks'[t].pc = "setBadgeText"
                /\ failed' = failed
          /\ (tasks[t].pc = "setBadgeText" /\ tasks'[t] # tasks[t]) =>
                /\ badge' = SubSeq(tasks[t].account, 1, 2)
                /\ tasks'[t] = NoTask
                /\ failed' = failed]_vars

(***************************************************************************)
(* Properties of the navigation watcher.                                   *)
(***************************************************************************)
\* the positions of the rules read whose urlPattern occurs in the url
PatternHits ==
    {p \in 1..Len(navigation.autoSwitchRules) :
        IsInfix(navigation.autoSwitchRules[p].urlPattern, navigation.url)}

\* C17: for a top-level navigation to https://github.com/ the watcher calls
\* switchTo at most once: with the account of the first rule, in list order,
\* whose urlPattern occurs in the url (the __account__ marker does not count),
\* and not at all when there is none; it never answers the request.
C17_OneSwitchPerNavigation ==
    (navigation.seen /\ ~navigation.pending) =>
        /\ Len(navigation.intents) <= 1
        /\ PatternHits = {} => navigation.intents = <<>>
        /\ PatternHits # {} =>
              LET first == CHOOSE p \in PatternHits : \A q \in PatternHits : p <= q
              IN  navigation.intents = <<navigation.autoSwitchRules[first].account>>
        /\ ~navigation.blocking

\* two rules of different accounts match the url: the first one's account is
\* switched to
C17_Witness ==
    /\ navigation.seen /\ ~navigation.pending
    /\ navigation.url = "https://github.com/orgA/orgB"
    /\ PatternHits = {1, 2}
    /\ navigation.autoSwitchRules[1].account = "bob"
    /\ navigation.autoSwitchRules[2].account = "alice"
    /\ navigation.intents = <<"bob">>

(***************************************************************************)
(* Properties of the snapshots syncAccounts stores.                        *)
(***************************************************************************)
\* the cookies of the snapshot stored under accountName
Stored(accountName) == SeqToSet(accounts[accountName].cookies)

\* C18: the snapshot stored under a name is the cookie store as it was at an
\* instant, that of cookie.getAll(), and at that instant dotcom_user had that
\* name as its value and user_session was present: no account holds the
\* cookies of another identity, whatever changed between the sync's reads.
C18_SnapshotOfOwnIdentity ==
    \A n \in AccountNames :
        accounts[n].known =>
            /\ \A c \in Stored(n) : c.name = "dotcom_user" => c.value = n
            /\ \E c \in Stored(n) : c.name = "dotcom_user"
            /\ \E c \in Stored(n) : c.name = "user_session"

(***************************************************************************)
(* Properties of startup.                                                  *)
(***************************************************************************)
\* nothing of the cookie watcher exists: no timer, no sync of its making
NoWatcher ==
    /\ syncTimer = 0
    /\ timers = {}
    /\ \A t \in TaskIds : tasks[t].origin # "timer"

\* C19: the listeners, and the interceptor where declarativeNetRequest is
\* absent, are registered only when the first sync has returned without
\* throwing; while it is in flight, and for good when it throws, none is
\* registered, and cookie changes in that time arm no timer.
C19_RegisteredAfterFirstSync ==
    /\ listening => (StartupOver /\ "init" \notin failed)
    /\ intercepting => (listening /\ ~hasDNR)
    /\ (~StartupOver \/ "init" \in failed) =>
          (~listening /\ ~intercepting /\ NoWatcher)
    /\ (nEvents > 0 /\ ~lastEvent.heard) => lastEvent.armed = 0
    /\ ~listening => NoWatcher

\* a qualifying cookie change came while the first sync was in flight: it armed
\* nothing, and the sync has since returned and the listeners are registered
C19_Witness ==
    /\ listening
    /\ intercepting
    /\ nEvents = 1
    /\ lastEvent.name = "_gh_sso" /\ ~lastEvent.removed /\ ~lastEvent.heard
    /\ NoWatcher
    /\ accounts["alice"].known

(***************************************************************************)
(* The interceptor's frame.                                                *)
(***************************************************************************)
\* header i of the request is a Cookie header
IsCookieHeader(i) == response.sent.list[i].name \in {"Cookie", "cookie"}

\* C20: the interceptor returns the headers it was given, as many and in the
\* same order, with the same names, and with the same values but for Cookie
\* headers; it returns them unchanged when there is no header list, no Cookie
\* header, no matching rule, or no cookies for the first matching rule's
\* account.
C20_InterceptorFrame ==
    LET sent == response.sent
        out == response.requestHeaders
    IN  /\ out.present = sent.present
        /\ Len(out.list) = Len(sent.list)
        /\ \A i \in 1..Len(sent.list) :
              /\ out.list[i].name = sent.list[i].name
              /\ ~IsCookieHeader(i) => out.list[i] = sent.list[i]
        /\ ~sent.present => out = sent
        /\ (\A i \in 1..Len(sent.list) : ~IsCookieHeader(i)) => out = sent
        /\ Matching = {} => out = sent
        /\ (Matching # {} /\ ~HasCookies(rules[FirstMatch].account)) => out = sent

\* of an Accept and a cookie header the second alone was rewritten
C20_Witness ==
    /\ response.sent.list = <<[name |-> "Accept", value |-> "*/*"],
                               [name |-> "cookie", value |-> "foo=bar"]>>
    /\ response.requestHeaders.list =
          <<[name |-> "Accept", value |-> "*/*"],
            [name |-> "cookie", value |-> "s=x; __account__=bob"]>>
====
